---- MODULE Spec2Model ----
(***************************************************************************)
(* Model of brs_utils/auto_centering/auto_centering.py: the control cycle  *)
(* brs_control and the scheduler schedule_run.                             *)
(*                                                                         *)
(* Numbers.  Channel readings are floats; they are modelled as integers in *)
(* thousandths.  np.round(x, 2) maps a reading to hundredths, and every    *)
(* value the code compares (drift, control, control_grid entries) is such  *)
(* a rounded value, so these are integers in hundredths.  The thresholds   *)
(* are the integers of the configuration file.                             *)
(* Time is counted in sleep slices: one unit is time_sleep (line 97).      *)
(***************************************************************************)
EXTENDS Integers, Sequences, FiniteSets, TLC

VARIABLES
    cfg,                    \* kwargs and start_now given to schedule_run
    pc,                     \* position in schedule_run (line number), or how the process ended
    cpc,                    \* position in brs_control (line number), "idle" outside a call
    now,                    \* datetime.datetime.now(), in sleep slices
    time_next,              \* schedule_run's time_next; -1 before line 96 ran
    hw_control,             \* value of the HEATCTRLIN channel, thousandths
    drift_read,             \* value returned by ezca read at line 143, thousandths
    control_read,           \* value returned by ezca read at line 144, thousandths
    drift,                  \* brs_control's drift after line 146, hundredths
    control,                \* brs_control's control after line 147, hundredths
    increase_temperature,   \* "None", "True" or "False"
    control_next,           \* brs_control's control_next, hundredths
    writes,                 \* values passed to ezca write during the current call
    hw_before,              \* value of the channel when the current call began
    cycles,                 \* number of calls of func made so far
    raised,                 \* exception raised so far: "none", "KeyboardInterrupt", "HardwareIOError"
    last_log,               \* the last line given to logger.info
    trail,                  \* control values of the earlier passes through lines 180-197
    switch_chn,             \* auto_switcher: value of the channel named by Switch_chn
    STS_RMS,                \* auto_switcher: pathswitcher's STS_RMS
    SC_STS_RMS,             \* auto_switcher: pathswitcher's SC_STS_RMS
    spc                     \* auto_switcher: position in pathswitcher, "none" when not run

vars == <<cfg, pc, cpc, now, time_next, hw_control, drift_read, control_read, drift,
          control, increase_temperature, control_next, writes, hw_before, cycles,
          raised, last_log, trail, switch_chn, STS_RMS, SC_STS_RMS, spc>>

\* the state of auto_switcher.py, which auto_centering.py never touches
switcher_vars == <<switch_chn, STS_RMS, SC_STS_RMS, spc>>

-----------------------------------------------------------------------------
(* Bounds of the model *)

\* n_grid ranges over 1..MaxGrid
MaxGrid == 4
\* thresholds range over -MaxThreshold..MaxThreshold
MaxThreshold == 1
\* control values range from ControlMargin hundredths below the grid to as far above it
ControlMargin == 20
\* number of times the result of lines 180-197 is fed back as the next control
MaxReadBack == 1
\* wall time explored, in sleep slices
MaxTime == 23
\* a sleep or a control cycle may last up to this many slices longer than nominal
MaxJitter == 1
\* auto_switcher: RMS values range over 0..MaxRms
MaxRms == 4

(* Program constants *)

\* time_sleep = interval/10: an interval is ten sleep slices
SlicesPerInterval == 10
\* sqrt(100) = 10.00, the last grid entry, in hundredths
GridTop == 1000
\* the threshold of the sample configuration
SampleThreshold == 8192
\* auto_switcher: the states of the switch channel
BRS_on_state == 8
BRS_off_state == 1

None == "None"

-----------------------------------------------------------------------------
(* Pure parts of brs_control *)

\* np.round(x, 2) of a reading in thousandths: nearest hundredth, halves to even
Round2(x) ==
    LET q == x \div 10
        r == x % 10
    IN  IF r < 5 THEN q
        ELSE IF r > 5 THEN q + 1
        ELSE IF q % 2 = 0 THEN q ELSE q + 1

\* round(sqrt(100*i/(n-1)), 2) in hundredths: the r with (r-1/2)^2 <= 10^6*i/(n-1) < (r+1/2)^2
SqrtRound(i, n) ==
    IF n = 1 THEN 0
    ELSE LET x4 == 4000000 * i
         IN  CHOOSE r \in 0..GridTop :
                /\ (r = 0 \/ (2*r - 1) * (2*r - 1) * (n - 1) <= x4)
                /\ x4 < (2*r + 1) * (2*r + 1) * (n - 1)

\* control_grid for every n_grid of the model, indexed from 0 as in the source
Grids == [n \in 1..MaxGrid |-> [i \in 0..(n - 1) |-> SqrtRound(i, n)]]

control_grid(n_grid) ==
    IF n_grid \in DOMAIN Grids THEN Grids[n_grid]
    ELSE [i \in 0..(n_grid - 1) |-> SqrtRound(i, n_grid)]

Abs(x) == IF x < 0 THEN -x ELSE x

\* np.argmin(np.abs(control_grid - control)): the lowest index of a minimum
ArgMin(grid, c) ==
    CHOOSE i \in DOMAIN grid :
        /\ \A j \in DOMAIN grid : Abs(grid[i] - c) <= Abs(grid[j] - c)
        /\ \A j \in DOMAIN grid : j < i => Abs(grid[j] - c) > Abs(grid[i] - c)

GridLen(grid) == Cardinality(DOMAIN grid)

RECURSIVE WalkUpMutStrict(_, _, _)
WalkUpMutStrict(grid, i, c) ==
    IF i < GridLen(grid) - 1 /\ grid[i] < c THEN WalkUpMutStrict(grid, i + 1, c) ELSE i

RECURSIVE WalkUp(_, _, _)
\* the while loop of lines 189-190
WalkUp(grid, i, c) ==
    IF i < GridLen(grid) - 1 /\ grid[i] <= c THEN WalkUp(grid, i + 1, c) ELSE i

RECURSIVE WalkDownMutStrict(_, _, _)
WalkDownMutStrict(grid, i, c) ==
    IF i > 0 /\ grid[i] > c THEN WalkDownMutStrict(grid, i - 1, c) ELSE i

RECURSIVE WalkDown(_, _, _)
\* the while loop of lines 195-196
WalkDown(grid, i, c) ==
    IF i > 0 /\ grid[i] >= c THEN WalkDown(grid, i - 1, c) ELSE i

\* lines 155-176: the direction, from the rounded drift (hundredths) and the thresholds
DecideMutBoundary(d, lower, upper, negated) ==
    IF d >= upper * 100 THEN (IF negated THEN "True" ELSE "False")
    ELSE IF d <= lower * 100 THEN (IF negated THEN "False" ELSE "True")
    ELSE None

DecideMutPolarity(d, lower, upper, negated) ==
    IF d > upper * 100 THEN (IF negated THEN "True" ELSE "False")
    ELSE IF d < lower * 100 THEN (IF negated THEN "True" ELSE "False")
    ELSE None

Decide(d, lower, upper, negated) ==
    IF d > upper * 100 THEN (IF negated THEN "True" ELSE "False")
    ELSE IF d < lower * 100 THEN (IF negated THEN "False" ELSE "True")
    ELSE None

\* lines 180-197: control_next from the grid, the rounded control and the direction
QuantizeMutSnap(grid, c, inc) ==
    grid[ArgMin(grid, c)]

QuantizeMutNoWalk(grid, c, inc) ==
    IF inc = None THEN c ELSE grid[ArgMin(grid, c)]

QuantizeMutStepOnce(grid, c, inc) ==
    LET i_closest == ArgMin(grid, c)
    IN  IF inc = None THEN c
        ELSE IF inc = "True"
             THEN grid[IF i_closest < GridLen(grid) - 1 THEN i_closest + 1 ELSE i_closest]
             ELSE grid[IF i_closest > 0 THEN i_closest - 1 ELSE i_closest]

QuantizeMutStuck(grid, c, inc) ==
    c

Quantize(grid, c, inc) ==
    LET i_closest == ArgMin(grid, c)
    IN  IF inc = None THEN c
        ELSE IF inc = "True" THEN grid[WalkUp(grid, i_closest, c)]
        ELSE grid[WalkDown(grid, i_closest, c)]

\* lines 184-197 with the walk started at index i_start
QuantizeFrom(grid, c, inc, i_start) ==
    IF inc = None THEN c
    ELSE IF inc = "True" THEN grid[WalkUp(grid, i_start, c)]
    ELSE grid[WalkDown(grid, i_start, c)]

\* the other tie-break of line 180: the highest index of a minimum
ArgMinHigh(grid, c) ==
    CHOOSE i \in DOMAIN grid :
        /\ \A j \in DOMAIN grid : Abs(grid[i] - c) <= Abs(grid[j] - c)
        /\ \A j \in DOMAIN grid : j > i => Abs(grid[j] - c) > Abs(grid[i] - c)

\* c lies exactly midway between two neighbouring grid entries
Equidistant(grid, c) ==
    \E i \in DOMAIN grid :
        /\ (i + 1) \in DOMAIN grid
        /\ grid[i] < c /\ c < grid[i + 1]
        /\ c - grid[i] = grid[i + 1] - c

GridMax(grid) == CHOOSE g \in {grid[i] : i \in DOMAIN grid} :
                    \A j \in DOMAIN grid : grid[j] <= g
GridMin(grid) == CHOOSE g \in {grid[i] : i \in DOMAIN grid} :
                    \A j \in DOMAIN grid : g <= grid[j]
GridValues(grid) == {grid[i] : i \in DOMAIN grid}

\* the grid is in strictly ascending order
StrictlyIncreasing(grid) ==
    \A i \in DOMAIN grid : (i + 1) \in DOMAIN grid => grid[i] < grid[i + 1]

-----------------------------------------------------------------------------
(* The steps of brs_control *)

\* the process has ended: cleanly through exit(), or with an uncaught exception
Ended == pc \in {"exit", "traceback"}

\* brs_control is being executed by the running process
InCall == ~Ended /\ pc \in {"l93", "l102", "pure"}

\* readings of the drift channel the model draws from, around both thresholds
DriftReadings ==
    UNION {{t * 1000 + d : d \in {-6, -5, 0, 5, 6}} :
              t \in {cfg.threshold_lower, cfg.threshold_upper}} \cup {0}

\* line 143, the read succeeds; time passes while the call runs
ReadDrift ==
    /\ InCall /\ cpc = "l143"
    /\ \E r \in DriftReadings, d \in 0..MaxJitter :
          /\ now + d <= MaxTime
          /\ drift_read' = r
          /\ now' = now + d
    /\ cpc' = "l144"
    /\ UNCHANGED <<switcher_vars, cfg, pc, time_next, hw_control, control_read, drift, control,
                   increase_temperature, control_next, writes, hw_before, cycles,
                   raised, last_log, trail>>

\* line 143, the read raises: the exception leaves brs_control and schedule_run
ReadDriftFail ==
    /\ InCall /\ cpc = "l143"
    /\ raised' = "HardwareIOError"
    /\ pc' = "traceback"
    /\ UNCHANGED <<switcher_vars, cfg, cpc, now, time_next, hw_control, drift_read, control_read, drift,
                   control, increase_temperature, control_next, writes, hw_before,
                   cycles, last_log, trail>>

\* line 144, the read succeeds
ReadControl ==
    /\ InCall /\ cpc = "l144"
    /\ control_read' = hw_control
    /\ cpc' = "l146"
    /\ UNCHANGED <<switcher_vars, cfg, pc, now, time_next, hw_control, drift_read, drift, control,
                   increase_temperature, control_next, writes, hw_before, cycles,
                   raised, last_log, trail>>

ReadControlFailMutStale ==
    /\ InCall /\ cpc = "l144"
    /\ raised' = "HardwareIOError"
    /\ pc' = "traceback"
    /\ writes' = Append(writes, 0)
    /\ hw_control' = 0
    /\ UNCHANGED <<switcher_vars, cfg, cpc, now, time_next, drift_read, control_read, drift,
                   control, increase_temperature, control_next, hw_before,
                   cycles, last_log, trail>>

\* line 144, the read raises
ReadControlFail ==
    /\ InCall /\ cpc = "l144"
    /\ raised' = "HardwareIOError"
    /\ pc' = "traceback"
    /\ UNCHANGED <<switcher_vars, cfg, cpc, now, time_next, hw_control, drift_read, control_read, drift,
                   control, increase_temperature, control_next, writes, hw_before,
                   cycles, last_log, trail>>

\* lines 146-176: round both readings, decide the direction
DecideStep ==
    /\ InCall /\ cpc = "l146"
    /\ drift' = Round2(drift_read)
    /\ control' = Round2(control_read)
    /\ increase_temperature' = Decide(Round2(drift_read), cfg.threshold_lower,
                                      cfg.threshold_upper, cfg.control_negated)
    /\ last_log' = IF Round2(drift_read) > cfg.threshold_upper * 100 THEN "higher"
                   ELSE IF Round2(drift_read) < cfg.threshold_lower * 100 THEN "lower"
                   ELSE "within"
    /\ cpc' = "l180"
    /\ UNCHANGED <<switcher_vars, cfg, pc, now, time_next, hw_control, drift_read, control_read,
                   control_next, writes, hw_before, cycles, raised, trail>>

\* lines 180-197: control_next
QuantizeStep ==
    /\ InCall /\ cpc = "l180"
    /\ control_next' = Quantize(control_grid(cfg.n_grid), control, increase_temperature)
    /\ cpc' = "l200"
    /\ UNCHANGED <<switcher_vars, cfg, pc, now, time_next, hw_control, drift_read, control_read, drift,
                   control, increase_temperature, writes, hw_before, cycles, raised,
                   last_log, trail>>

ApplyMutAlways ==
    /\ InCall /\ cpc = "l200"
    /\ writes' = Append(writes, control_next)
    /\ hw_control' = control_next * 10
    /\ last_log' = "setting"
    /\ cpc' = "l206"
    /\ UNCHANGED <<switcher_vars, cfg, pc, now, time_next, drift_read, control_read, drift, control,
                   increase_temperature, control_next, hw_before, cycles, raised, trail>>

ApplyMutWrong ==
    /\ InCall /\ cpc = "l200"
    /\ IF control # control_next
          THEN /\ writes' = Append(writes, control)
               /\ hw_control' = control * 10
               /\ last_log' = "setting"
          ELSE /\ last_log' = "nothing"
               /\ UNCHANGED <<writes, hw_control>>
    /\ cpc' = "l206"
    /\ UNCHANGED <<switcher_vars, cfg, pc, now, time_next, drift_read, control_read, drift, control,
                   increase_temperature, control_next, hw_before, cycles, raised, trail>>

\* lines 200-204, the write (if any) succeeds
Apply ==
    /\ InCall /\ cpc = "l200"
    /\ IF control # control_next
          THEN /\ writes' = Append(writes, control_next)
               /\ hw_control' = control_next * 10
               /\ last_log' = "setting"
          ELSE /\ last_log' = "nothing"
               /\ UNCHANGED <<writes, hw_control>>
    /\ cpc' = "l206"
    /\ UNCHANGED <<switcher_vars, cfg, pc, now, time_next, drift_read, control_read, drift, control,
                   increase_temperature, control_next, hw_before, cycles, raised, trail>>

\* line 202, the write raises: the channel keeps its value
WriteFail ==
    /\ InCall /\ cpc = "l200"
    /\ control # control_next
    /\ writes' = Append(writes, control_next)
    /\ last_log' = "setting"
    /\ raised' = "HardwareIOError"
    /\ pc' = "traceback"
    /\ UNCHANGED <<switcher_vars, cfg, cpc, now, time_next, hw_control, drift_read, control_read, drift,
                   control, increase_temperature, control_next, hw_before, cycles, trail>>

-----------------------------------------------------------------------------
(* schedule_run *)

\* func(**kwargs): enter brs_control (lines 134-141) with fresh locals
Call(at) ==
    /\ pc' = at
    /\ cpc' = "l143"
    /\ cycles' = cycles + 1
    /\ hw_before' = hw_control
    /\ writes' = <<>>
    /\ drift_read' = 0 /\ control_read' = 0 /\ drift' = 0 /\ control' = 0
    /\ increase_temperature' = None
    /\ control_next' = 0
    /\ last_log' = "starting"

StartMutSkip ==
    /\ pc = "l92"
    /\ pc' = "l94"
    /\ UNCHANGED <<switcher_vars, cfg, cpc, now, time_next, hw_control, drift_read, control_read, drift,
                   control, increase_temperature, control_next, writes, hw_before, cycles,
                   raised, last_log, trail>>

\* lines 92-93: the optional first call, made before any deadline exists
Start ==
    /\ pc = "l92"
    /\ IF cfg.start_now
          THEN Call("l93")
          ELSE /\ pc' = "l94"
               /\ UNCHANGED <<cpc, cycles, hw_before, writes, drift_read, control_read,
                              drift, control, increase_temperature, control_next, last_log>>
    /\ UNCHANGED <<switcher_vars, cfg, now, time_next, hw_control, raised, trail>>

\* brs_control returns (line 206) to line 94 or to line 103
Return ==
    /\ InCall /\ pc # "pure" /\ cpc = "l206"
    /\ cpc' = "idle"
    /\ pc' = IF pc = "l93" THEN "l94" ELSE "l103"
    /\ drift_read' = 0 /\ control_read' = 0 /\ drift' = 0 /\ control' = 0
    /\ increase_temperature' = None
    /\ control_next' = 0
    /\ UNCHANGED <<switcher_vars, cfg, now, time_next, hw_control, writes, hw_before, cycles, raised,
                   last_log, trail>>

FirstDeadlineMutDouble ==
    /\ pc = "l94"
    /\ time_next' = now + 2 * SlicesPerInterval
    /\ last_log' = "next_run"
    /\ pc' = "l101"
    /\ UNCHANGED <<switcher_vars, cfg, cpc, now, hw_control, drift_read, control_read, drift, control,
                   increase_temperature, control_next, writes, hw_before, cycles, raised,
                   trail>>

\* lines 94-98: the first deadline
FirstDeadline ==
    /\ pc = "l94"
    /\ time_next' = now + SlicesPerInterval
    /\ last_log' = "next_run"
    /\ pc' = "l101"
    /\ UNCHANGED <<switcher_vars, cfg, cpc, now, hw_control, drift_read, control_read, drift, control,
                   increase_temperature, control_next, writes, hw_before, cycles, raised,
                   trail>>

LoopCheckMutGe ==
    /\ pc = "l101"
    /\ IF now >= time_next
          THEN Call("l102")
          ELSE /\ pc' = "l106"
               /\ UNCHANGED <<cpc, cycles, hw_before, writes, drift_read, control_read,
                              drift, control, increase_temperature, control_next, last_log>>
    /\ UNCHANGED <<switcher_vars, cfg, now, time_next, hw_control, raised, trail>>

\* lines 101-102: the deadline test, and the call when it has passed
LoopCheck ==
    /\ pc = "l101"
    /\ IF now > time_next
          THEN Call("l102")
          ELSE /\ pc' = "l106"
               /\ UNCHANGED <<cpc, cycles, hw_before, writes, drift_read, control_read,
                              drift, control, increase_temperature, control_next, last_log>>
    /\ UNCHANGED <<switcher_vars, cfg, now, time_next, hw_control, raised, trail>>

\* lines 103-105: the next deadline, counted from the return of the call
NextDeadline ==
    /\ pc = "l103"
    /\ time_next' = now + SlicesPerInterval
    /\ last_log' = "next_run"
    /\ pc' = "l106"
    /\ UNCHANGED <<switcher_vars, cfg, cpc, now, hw_control, drift_read, control_read, drift, control,
                   increase_temperature, control_next, writes, hw_before, cycles, raised,
                   trail>>

\* line 106: one sleep slice, which may last longer than asked
Sleep ==
    /\ pc = "l106"
    /\ \E d \in 0..MaxJitter :
          /\ now + 1 + d <= MaxTime
          /\ now' = now + 1 + d
    /\ pc' = "l101"
    /\ UNCHANGED <<switcher_vars, cfg, cpc, time_next, hw_control, drift_read, control_read, drift,
                   control, increase_temperature, control_next, writes, hw_before, cycles,
                   raised, last_log, trail>>

\* the lines inside the try statement of lines 99-106
InTry == pc \in {"l101", "l102", "l103", "l106"}

\* KeyboardInterrupt arrives: handled by lines 107-109 inside the try, uncaught outside
Interrupt ==
    /\ ~Ended /\ pc # "pure"
    /\ raised' = "KeyboardInterrupt"
    /\ IF InTry
          THEN pc' = "exit" /\ last_log' = "interrupted"
          ELSE pc' = "traceback" /\ UNCHANGED last_log
    /\ UNCHANGED <<switcher_vars, cfg, cpc, now, time_next, hw_control, drift_read, control_read, drift,
                   control, increase_temperature, control_next, writes, hw_before, cycles,
                   trail>>

-----------------------------------------------------------------------------
(* auto_switcher.py: pathswitcher *)

\* auto_switcher.py is not the program being run
SwitcherNotRun ==
    /\ switch_chn = BRS_off_state
    /\ STS_RMS = 0
    /\ SC_STS_RMS = 0
    /\ spc = "none"

\* lines 219-228: fetch both time series, filter them and take their RMS
FetchRMS ==
    /\ spc = "l219"
    /\ STS_RMS' \in 0..MaxRms
    /\ SC_STS_RMS' \in 0..MaxRms
    /\ spc' = "l231"
    /\ UNCHANGED <<cfg, pc, cpc, now, time_next, hw_control, drift_read, control_read,
                   drift, control, increase_temperature, control_next, writes, hw_before,
                   cycles, raised, last_log, trail, switch_chn>>

\* lines 231-236: compare and log; nothing is written to the switch channel
Compare ==
    /\ spc = "l231"
    /\ last_log' = IF STS_RMS > SC_STS_RMS THEN "BRS ON" ELSE "BRS OFF"
    /\ spc' = "l237"
    /\ UNCHANGED <<cfg, pc, cpc, now, time_next, hw_control, drift_read, control_read,
                   drift, control, increase_temperature, control_next, writes, hw_before,
                   cycles, raised, trail, switch_chn, STS_RMS, SC_STS_RMS>>

\* pathswitcher is run again (schedule_run of auto_switcher.py, lines 39-42)
RunAgain ==
    /\ spc = "l237"
    /\ last_log' = "running"
    /\ spc' = "l219"
    /\ UNCHANGED <<cfg, pc, cpc, now, time_next, hw_control, drift_read, control_read,
                   drift, control, increase_temperature, control_next, writes, hw_before,
                   cycles, raised, trail, switch_chn, STS_RMS, SC_STS_RMS>>

InitSwitch ==
    /\ cfg = [control_negated |-> FALSE, threshold_lower |-> -1, threshold_upper |-> 1,
              start_now |-> FALSE, n_grid |-> 2]
    /\ pc = "switcher"
    /\ cpc = "idle"
    /\ now = 0
    /\ time_next = -1
    /\ hw_control = 0
    /\ hw_before = 0
    /\ drift_read = 0 /\ control_read = 0 /\ drift = 0 /\ control = 0
    /\ increase_temperature = None
    /\ control_next = 0
    /\ writes = <<>>
    /\ cycles = 0
    /\ raised = "none"
    /\ last_log = "running"
    /\ trail = <<>>
    /\ switch_chn \in {BRS_on_state, BRS_off_state}
    /\ STS_RMS = 0
    /\ SC_STS_RMS = 0
    /\ spc = "l219"

NextSwitch ==
    \/ FetchRMS
    \/ Compare
    \/ RunAgain

SpecSwitch == InitSwitch /\ [][NextSwitch]_vars

-----------------------------------------------------------------------------
(* The running program *)

\* configurations: read_brs_config validates nothing, so misordered thresholds occur
Thresholds == (-MaxThreshold)..MaxThreshold

Configs ==
    [control_negated : BOOLEAN, threshold_lower : {-1, 1}, threshold_upper : {-1, 1},
     start_now : BOOLEAN, n_grid : {2, MaxGrid}]

\* initial values of the HEATCTRLIN channel: on, near and between grid values, and outside
ControlReadings(n_grid) ==
    {10 * g + d : g \in GridValues(control_grid(n_grid)), d \in {-15, -5, 0, 4}}
        \cup {-10 * ControlMargin, 10 * (GridTop + ControlMargin)}

Init ==
    /\ cfg \in {c \in Configs : c.threshold_lower # c.threshold_upper}
    /\ pc = "l92"
    /\ cpc = "idle"
    /\ now = 0
    /\ time_next = -1
    /\ hw_control \in ControlReadings(cfg.n_grid)
    /\ hw_before = hw_control
    /\ drift_read = 0 /\ control_read = 0 /\ drift = 0 /\ control = 0
    /\ increase_temperature = None
    /\ control_next = 0
    /\ writes = <<>>
    /\ cycles = 0
    /\ raised = "none"
    /\ last_log = "parsing"
    /\ trail = <<>>
    /\ SwitcherNotRun

Next ==
    \/ Start
    \/ FirstDeadline
    \/ LoopCheck
    \/ NextDeadline
    \/ Sleep
    \/ Interrupt
    \/ ReadDrift
    \/ ReadDriftFail
    \/ ReadControl
    \/ ReadControlFail
    \/ DecideStep
    \/ QuantizeStep
    \/ Apply
    \/ WriteFail
    \/ Return

Spec == Init /\ [][Next]_vars

-----------------------------------------------------------------------------
(* Lines 146-176 on their own, from every reading and every pair of thresholds *)

InitDecide ==
    /\ cfg \in [control_negated : BOOLEAN, threshold_lower : Thresholds,
                 threshold_upper : Thresholds, start_now : {FALSE}, n_grid : {MaxGrid}]
               \cup [control_negated : BOOLEAN, threshold_lower : {-SampleThreshold},
                     threshold_upper : {SampleThreshold}, start_now : {FALSE},
                     n_grid : {MaxGrid}]
    /\ pc = "pure"
    /\ cpc = "l146"
    /\ now = 0
    /\ time_next = -1
    /\ hw_control = 0
    /\ hw_before = 0
    /\ drift_read \in ((-(MaxThreshold + 1) * 1000)..((MaxThreshold + 1) * 1000))
                         \cup {s * t * 1000 + d : s \in {-1, 1}, d \in {-6, -5, 0, 5, 6},
                                                  t \in {SampleThreshold, 9000}}
    /\ control_read = 0 /\ drift = 0 /\ control = 0
    /\ increase_temperature = None
    /\ control_next = 0
    /\ writes = <<>>
    /\ cycles = 1
    /\ raised = "none"
    /\ last_log = "current"
    /\ trail = <<>>
    /\ SwitcherNotRun

SpecDecide == InitDecide /\ [][DecideStep]_vars

-----------------------------------------------------------------------------
(* Lines 180-197 on their own, from every grid, control value and direction *)

ControlValues == (-ControlMargin)..(GridTop + ControlMargin)

Directions == {None, "True", "False"}

InitQuantize ==
    /\ cfg \in [control_negated : {FALSE}, threshold_lower : {-1}, threshold_upper : {1},
                 start_now : {FALSE}, n_grid : 1..MaxGrid]
    /\ pc = "pure"
    /\ cpc = "l180"
    /\ now = 0
    /\ time_next = -1
    /\ hw_control = 0
    /\ hw_before = 0
    /\ drift_read = 0 /\ control_read = 0 /\ drift = 0
    /\ control \in ControlValues
    /\ increase_temperature \in Directions
    /\ control_next = 0
    /\ writes = <<>>
    /\ cycles = 1
    /\ raised = "none"
    /\ last_log = "current"
    /\ trail = <<>>
    /\ SwitcherNotRun

\* the next cycle reads back what this one decided (lines 144-147) and decides afresh
ReadBack ==
    /\ pc = "pure" /\ cpc = "l200"
    /\ Len(trail) < MaxReadBack
    /\ trail' = Append(trail, [control |-> control,
                               increase_temperature |-> increase_temperature])
    /\ control' = control_next
    /\ increase_temperature' \in Directions
    /\ cpc' = "l180"
    /\ UNCHANGED <<switcher_vars, cfg, pc, now, time_next, hw_control, drift_read, control_read, drift,
                   control_next, writes, hw_before, cycles, raised, last_log>>

NextQuantize ==
    \/ QuantizeStep
    \/ ReadBack

SpecQuantize == InitQuantize /\ [][NextQuantize]_vars

-----------------------------------------------------------------------------
(* Lines 180-197 in closed loop: every cycle decides the same direction and reads back *)
(* the control value the cycle before it decided                                      *)

InitTraverse ==
    /\ cfg \in [control_negated : {FALSE}, threshold_lower : {-1}, threshold_upper : {1},
                 start_now : {FALSE}, n_grid : 1..MaxGrid]
    /\ pc = "pure"
    /\ cpc = "l180"
    /\ now = 0
    /\ time_next = -1
    /\ hw_control = 0
    /\ hw_before = 0
    /\ drift_read = 0 /\ control_read = 0 /\ drift = 0
    /\ control \in ControlValues
    /\ increase_temperature \in {"True", "False"}
    /\ control_next = 0
    /\ writes = <<>>
    /\ cycles = 1
    /\ raised = "none"
    /\ last_log = "current"
    /\ trail = <<>>
    /\ SwitcherNotRun

\* the next cycle reads back control_next (lines 144-147) and decides the same direction;
\* the loop is followed for two cycles more than the grid has entries
ReadBackSame ==
    /\ pc = "pure" /\ cpc = "l200"
    /\ Len(trail) <= cfg.n_grid
    /\ trail' = Append(trail, [control |-> control,
                               increase_temperature |-> increase_temperature])
    /\ control' = control_next
    /\ cpc' = "l180"
    /\ UNCHANGED <<switcher_vars, cfg, pc, now, time_next, hw_control, drift_read, control_read, drift,
                   increase_temperature, control_next, writes, hw_before, cycles, raised,
                   last_log>>

NextTraverse ==
    \/ QuantizeStep
    \/ ReadBackSame

SpecTraverse == InitTraverse /\ [][NextTraverse]_vars

-----------------------------------------------------------------------------
(* Lines 146-176, line 148 among them, for small and for large grids *)

\* n_grid of the sample configuration, and the sizes on both sides of the first one at
\* which two neighbouring entries round to the same hundredth
LargeGridSizes == {64, 517, 518}

InitGrid ==
    /\ cfg \in [control_negated : BOOLEAN, threshold_lower : {-1}, threshold_upper : {1},
                 start_now : {FALSE}, n_grid : (2..MaxGrid) \cup LargeGridSizes]
    /\ pc = "pure"
    /\ cpc = "l146"
    /\ now = 0
    /\ time_next = -1
    /\ hw_control = 0
    /\ hw_before = 0
    /\ drift_read \in DriftReadings
    /\ control_read = 0 /\ drift = 0 /\ control = 0
    /\ increase_temperature = None
    /\ control_next = 0
    /\ writes = <<>>
    /\ cycles = 1
    /\ raised = "none"
    /\ last_log = "current"
    /\ trail = <<>>
    /\ SwitcherNotRun

SpecGrid == InitGrid /\ [][DecideStep]_vars

-----------------------------------------------------------------------------
(* Lines 146-176 run with the configuration generate_sample_config writes *)

\* the file written by lines 23-30, as read_brs_config reads it back
SampleConfig ==
    [control_negated |-> FALSE, threshold_lower |-> SampleThreshold,
     threshold_upper |-> -SampleThreshold, start_now |-> FALSE, n_grid |-> 64]

InitSample ==
    /\ cfg = SampleConfig
    /\ pc = "pure"
    /\ cpc = "l146"
    /\ now = 0
    /\ time_next = -1
    /\ hw_control = 0
    /\ hw_before = 0
    /\ drift_read \in {t * 1000 + d : t \in {-9000, -SampleThreshold, 0, SampleThreshold, 9000},
                                       d \in (-10)..10}
    /\ control_read = 0 /\ drift = 0 /\ control = 0
    /\ increase_temperature = None
    /\ control_next = 0
    /\ writes = <<>>
    /\ cycles = 1
    /\ raised = "none"
    /\ last_log = "current"
    /\ trail = <<>>
    /\ SwitcherNotRun

SpecSample == InitSample /\ [][DecideStep]_vars

-----------------------------------------------------------------------------
(* Properties *)

Ordered == cfg.threshold_lower < cfg.threshold_upper

\* C1: with thresholdLower < thresholdUpper, every measurement m (the rounded drift) with
\* thresholdLower <= m <= thresholdUpper, both boundary values included, is decided
\* Hold (increase_temperature stays None), whatever control_negated is.
C1_HoldInsideBand ==
    (/\ cpc = "l180"
     /\ Ordered
     /\ cfg.threshold_lower * 100 <= drift
     /\ drift <= cfg.threshold_upper * 100)
        => increase_temperature = None

C1_Witness ==
    /\ cpc = "l180"
    /\ Ordered
    /\ cfg.control_negated
    /\ drift = cfg.threshold_upper * 100
    /\ drift_read > cfg.threshold_upper * 1000
    /\ increase_temperature = None

\* C2: with thresholdLower < thresholdUpper, a measurement above thresholdUpper is decided
\* Increase if control_negated and Decrease otherwise; a measurement below thresholdLower
\* is decided Decrease if control_negated and Increase otherwise.
C2_DirectionOutsideBand ==
    (cpc = "l180" /\ Ordered) =>
        /\ drift > cfg.threshold_upper * 100 =>
              increase_temperature = (IF cfg.control_negated THEN "True" ELSE "False")
        /\ drift < cfg.threshold_lower * 100 =>
              increase_temperature = (IF cfg.control_negated THEN "False" ELSE "True")

\* the scenario: thresholds -8192/8192, not negated, m = 9000 gives Decrease
C2_Witness ==
    /\ cpc = "l180"
    /\ cfg.threshold_lower = -8192 /\ cfg.threshold_upper = 8192
    /\ ~cfg.control_negated
    /\ drift = 900000
    /\ increase_temperature = "False"

\* C3: with direction Hold, control_next is the current control value itself, on or off
\* the grid, and stays that value when Hold cycles repeat.
C3_HoldKeepsValue ==
    (cpc = "l200" /\ increase_temperature = None) =>
        /\ control_next = control
        /\ \A k \in 1..Len(trail) :
              (\A j \in k..Len(trail) : trail[j].increase_temperature = None)
                  => control_next = trail[k].control

C3_Witness ==
    /\ cpc = "l200"
    /\ increase_temperature = None
    /\ Len(trail) = 1 /\ trail[1].increase_temperature = None
    /\ control \notin GridValues(control_grid(cfg.n_grid))
    /\ trail[1].control = control
    /\ control_next = control

\* C4: Increase gives a value strictly above the current one, unless the current value is
\* at or above the largest grid value, and then exactly the largest grid value; Decrease
\* gives a value strictly below, unless the current value is at or below the smallest grid
\* value, and then exactly the smallest. The result is always a grid value.
C4_MonotoneClamped ==
    LET grid == control_grid(cfg.n_grid)
    IN  cpc = "l200" =>
          /\ increase_temperature = "True" =>
                /\ control_next \in GridValues(grid)
                /\ IF control >= GridMax(grid) THEN control_next = GridMax(grid)
                                               ELSE control_next > control
          /\ increase_temperature = "False" =>
                /\ control_next \in GridValues(grid)
                /\ IF control <= GridMin(grid) THEN control_next = GridMin(grid)
                                               ELSE control_next < control

C4_Witness ==
    /\ cpc = "l200"
    /\ cfg.n_grid = MaxGrid
    /\ increase_temperature = "False"
    /\ control > GridMin(control_grid(cfg.n_grid))
    /\ control < GridMax(control_grid(cfg.n_grid))
    /\ control \in GridValues(control_grid(cfg.n_grid))
    /\ control_next < control

\* C5: from a current value that is not a grid value, Increase followed by Decrease on the
\* result never gives the original value back.
C5_NoOscillation ==
    (/\ cpc = "l200"
     /\ Len(trail) >= 1
     /\ trail[Len(trail)].increase_temperature = "True"
     /\ increase_temperature = "False"
     /\ trail[Len(trail)].control \notin GridValues(control_grid(cfg.n_grid)))
        => control_next # trail[Len(trail)].control

C5_Witness ==
    /\ cpc = "l200"
    /\ Len(trail) >= 1
    /\ trail[Len(trail)].increase_temperature = "True"
    /\ increase_temperature = "False"
    /\ trail[Len(trail)].control \notin GridValues(control_grid(cfg.n_grid))
    /\ trail[Len(trail)].control > 0
    /\ control_next < trail[Len(trail)].control
    /\ control > trail[Len(trail)].control

\* C6: in every control cycle the actuator channel is written exactly when control_next
\* differs from the control value read in that cycle: at most one write per cycle, the
\* value written is control_next, and a cycle that decides Hold, or that is already at
\* the end of the grid it moves towards, writes nothing and leaves the channel as it was.
C6_WriteIffChanged ==
    LET grid == control_grid(cfg.n_grid)
    IN  /\ Len(writes) <= 1
        /\ cpc = "l206" =>
              /\ (writes # <<>>) <=> (control_next # control)
              /\ writes # <<>> =>
                    (writes[1] = control_next /\ hw_control = 10 * control_next)
              /\ writes = <<>> => hw_control = hw_before
              /\ increase_temperature = None => writes = <<>>
              /\ (increase_temperature = "True" /\ control = GridMax(grid))
                    => writes = <<>>
              /\ (increase_temperature = "False" /\ control = GridMin(grid))
                    => writes = <<>>

C6_Witness ==
    /\ pc = "l102"
    /\ cpc = "l206"
    /\ increase_temperature = "True"
    /\ control_next > control
    /\ control_read # 10 * control
    /\ writes = <<control_next>>
    /\ hw_control = 10 * control_next

\* C7: the channel is written only after both reads succeeded and control_next was
\* computed: a cycle in which the sensor read or the actuator read fails has written
\* nothing, and the channel holds what it held when the cycle began.
C7_NoWriteBeforeReads ==
    cpc \in {"l143", "l144", "l146", "l180"} =>
        (writes = <<>> /\ hw_control = hw_before)

C7_Witness ==
    /\ raised = "HardwareIOError"
    /\ cpc = "l144"
    /\ pc = "traceback"
    /\ cycles = 2
    /\ writes = <<>>
    /\ hw_control = hw_before

\* C8: a hardware read or write failure raised by a control cycle of the timed loop is
\* not fatal to the scheduler: it keeps running, so that the next cycle can be executed.
C8_FailureNotFatal ==
    (raised = "HardwareIOError" /\ time_next >= 0) => pc # "traceback"

\* C9: with start_now exactly one control cycle is executed, to its end, before the first
\* deadline is computed and the timed loop entered; without start_now no control cycle
\* is executed before the first deadline (start time + interval) has passed.
C9_ImmediateFirstCycle ==
    /\ pc = "l93" => (cfg.start_now /\ cycles = 1 /\ time_next = -1)
    /\ pc = "l94" =>
          /\ cycles = (IF cfg.start_now THEN 1 ELSE 0)
          /\ cpc = "idle"
          /\ time_next = -1
    /\ (pc = "l101" /\ now = 0) => cycles = (IF cfg.start_now THEN 1 ELSE 0)
    /\ (~cfg.start_now /\ cycles > 0) => now > SlicesPerInterval

C9_Witness ==
    /\ pc = "l94"
    /\ cfg.start_now
    /\ cycles = 1
    /\ writes # <<>>
    /\ time_next = -1

\* C10: an interrupt received during the immediate first cycle, during a sleep slice or
\* during a scheduled cycle stops the scheduler through the handler: the shutdown line is
\* logged and the process exits cleanly; the interrupt does not escape uncaught.
C10_InterruptHandled ==
    (raised = "KeyboardInterrupt" /\ (cpc # "idle" \/ time_next >= 0))
        => (pc = "exit" /\ last_log = "interrupted")

\* C11: an interrupt is acted on only between control cycles: a cycle in flight runs to
\* its end first, so the scheduler never stops where a cycle has read its inputs and
\* decided a new actuator value but has not written it.
C11_NoDecidedUnwrittenAtStop ==
    pc = "exit" => ~(cpc = "l200" /\ control_next # control /\ writes = <<>>)

\* C12: with start_now and no interrupt, the second control cycle fires no later than
\* 2 x interval after the start (the first cycle fires at the start, time 0): the
\* scheduler cannot be past that time with fewer than 2 cycles made; and the deadline set
\* after the second cycle lies strictly after the first deadline, hence after the time
\* the first cycle fired.
C12_TwoCyclesInTwoIntervals ==
    cfg.start_now =>
        /\ (pc = "l102" /\ cpc = "l143" /\ cycles = 2) => now <= 2 * SlicesPerInterval
        /\ (~Ended /\ cycles < 2) => now <= 2 * SlicesPerInterval
        /\ (pc = "l106" /\ cycles = 2) => time_next > SlicesPerInterval

C12_Witness ==
    /\ cfg.start_now
    /\ pc = "l106"
    /\ cycles = 2
    /\ raised = "none"
    /\ now <= 2 * SlicesPerInterval
    /\ time_next = now + SlicesPerInterval

\* C13: on a strictly increasing grid, Increase gives the smallest grid value strictly
\* above the current value whenever one exists, and Decrease gives the largest grid value
\* strictly below it whenever one exists.
C13_ExactNeighbour ==
    LET grid == control_grid(cfg.n_grid)
        GV == GridValues(grid)
    IN  (cpc = "l200" /\ StrictlyIncreasing(grid)) =>
          /\ (increase_temperature = "True" /\ \E g \in GV : g > control) =>
                /\ control_next \in GV
                /\ control_next > control
                /\ \A g \in GV : g > control => control_next <= g
          /\ (increase_temperature = "False" /\ \E g \in GV : g < control) =>
                /\ control_next \in GV
                /\ control_next < control
                /\ \A g \in GV : g < control => control_next >= g

\* the scenario: grid [0.0, 5.77, 8.16, 10.0], v = 6.0, Increase gives 8.16
C13_Witness ==
    /\ cpc = "l200"
    /\ control_grid(cfg.n_grid) = [i \in 0..3 |-> CASE i = 0 -> 0 [] i = 1 -> 577
                                                    [] i = 2 -> 816 [] i = 3 -> 1000]
    /\ control = 600
    /\ increase_temperature = "True"
    /\ control_next = 816

\* C14: for every n_grid >= 2 the control grid has n_grid distinct values in strictly
\* increasing order, from 0.0 to 10.0: rounding to 2 decimals makes no two neighbouring
\* entries equal.
C14_GridStrictlyIncreasing ==
    LET grid == control_grid(cfg.n_grid)
    IN  (cpc = "l180" /\ cfg.n_grid >= 2) =>
          /\ StrictlyIncreasing(grid)
          /\ Cardinality(GridValues(grid)) = cfg.n_grid
          /\ grid[0] = 0
          /\ grid[cfg.n_grid - 1] = GridTop

\* C15 as claimed: every test of the deadline made at now >= time_next, equality
\* included, executes a control cycle; so whenever the loop goes to sleep, now is still
\* before the deadline.
C15_FiresAtDeadline ==
    pc = "l106" => now < time_next

\* C15 as amended: a test of the deadline made at now > time_next executes a control
\* cycle, and one made at now <= time_next (equality included) does not; the deadline is
\* recomputed only after the cycle has returned, as the time after the return plus the
\* interval.
C15_FiresAfterDeadline ==
    /\ [](pc = "l106" => now <= time_next)
    /\ [](pc \in {"l102", "l103"} => now > time_next)
    /\ [][(pc = "l101" /\ pc' \in {"l102", "l106"}) =>
              ((now > time_next) <=> (pc' = "l102"))]_vars
    /\ [][(time_next >= 0 /\ time_next' # time_next) =>
              (pc = "l103" /\ cpc = "idle" /\ time_next' = now + SlicesPerInterval)]_vars

C15_Witness ==
    /\ pc = "l106"
    /\ now = time_next
    /\ raised = "none"
    /\ cycles = 2

\* the control values of the cycles so far, the current one last
Visited == [k \in 1..(Len(trail) + 1) |->
               IF k <= Len(trail) THEN trail[k].control ELSE control]

\* the cycles so far that write: those whose control_next differs from their control
WritingCycles ==
    {k \in 1..(Len(trail) + 1) :
        Visited[k] # (IF k <= Len(trail) THEN Visited[k + 1] ELSE control_next)}

\* C16: when every cycle decides Increase and reads back what the cycle before wrote,
\* then from any value at or below the largest grid value the control values increase
\* strictly until they equal the largest grid value, which they do after at most n_grid
\* writing cycles, and from then on no cycle writes; likewise for Decrease and the
\* smallest grid value.
C16_Traversal ==
    LET grid == control_grid(cfg.n_grid)
    IN  cpc = "l200" =>
          /\ (increase_temperature = "True" /\ Visited[1] <= GridMax(grid)) =>
                /\ control < GridMax(grid) => control_next > control
                /\ control = GridMax(grid) => control_next = control
                /\ control_next <= GridMax(grid)
                /\ Cardinality(WritingCycles) <= cfg.n_grid
                /\ Len(trail) + 1 >= cfg.n_grid => control_next = GridMax(grid)
          /\ (increase_temperature = "False" /\ Visited[1] >= GridMin(grid)) =>
                /\ control > GridMin(grid) => control_next < control
                /\ control = GridMin(grid) => control_next = control
                /\ control_next >= GridMin(grid)
                /\ Cardinality(WritingCycles) <= cfg.n_grid
                /\ Len(trail) + 1 >= cfg.n_grid => control_next = GridMin(grid)

C16_Witness ==
    /\ cpc = "l200"
    /\ cfg.n_grid = MaxGrid
    /\ increase_temperature = "True"
    /\ Len(trail) = cfg.n_grid
    /\ Visited[1] < 0
    /\ Cardinality(WritingCycles) = cfg.n_grid
    /\ control = GridTop
    /\ control_next = control

\* the channel value lies within the span of the grid
OnGridSpan(h) ==
    LET grid == control_grid(cfg.n_grid)
    IN  10 * GridMin(grid) <= h /\ h <= 10 * GridMax(grid)

\* C18: every value brs_control writes to the actuator channel is a grid value and
\* differs from the actuator value read at the start of the same cycle; hence, the
\* channel reading back what was written, once a write has happened the channel value
\* stays between the smallest and the largest grid value.
C18_WritesOnGrid ==
    /\ []((writes # <<>> /\ cpc \in {"l200", "l206"}) =>
            /\ writes[1] \in GridValues(control_grid(cfg.n_grid))
            /\ writes[1] # control
            /\ 10 * writes[1] # control_read)
    /\ [][hw_control' # hw_control =>
            /\ writes' = <<control_next>>
            /\ hw_control' = 10 * control_next
            /\ OnGridSpan(hw_control')]_vars
    /\ [][OnGridSpan(hw_control) => OnGridSpan(hw_control')]_vars

C18_Witness ==
    /\ cpc = "l206"
    /\ hw_before > 10 * GridTop
    /\ control_read = hw_before
    /\ writes = <<GridTop>>
    /\ hw_control = 10 * GridTop

\* C19: when the current value is exactly midway between two neighbouring grid values,
\* control_next is the same for Increase, Decrease and Hold whether the walk starts from
\* the lower neighbour (the lowest-index argmin of line 180) or from the higher one.
C19_TieBreakIndependent ==
    LET grid == control_grid(cfg.n_grid)
    IN  (cpc = "l200" /\ Equidistant(grid, control)) =>
          control_next = QuantizeFrom(grid, control, increase_temperature,
                                      ArgMinHigh(grid, control))

C19_Witness ==
    LET grid == control_grid(cfg.n_grid)
    IN  /\ cpc = "l200"
        /\ Equidistant(grid, control)
        /\ ArgMin(grid, control) > 0
        /\ ArgMinHigh(grid, control) = ArgMin(grid, control) + 1
        /\ increase_temperature = "False"
        /\ control_next = grid[ArgMin(grid, control)]

\* C20: the configuration written by generate_sample_config has threshold_lower <
\* threshold_upper, so that a control loop run with it decides Hold for a measurement
\* between the two thresholds (a drift of 0).
C20_SampleOrdered ==
    (cfg = SampleConfig /\ cpc = "l180") =>
        /\ Ordered
        /\ drift = 0 => increase_temperature = None

\* C17: each run of pathswitcher switches the correction path to the one with the lower
\* RMS: after the run the switch channel holds the BRS-on state when STS_RMS >
\* SC_STS_RMS and the BRS-off state otherwise.
C17_SwitchFollowsRMS ==
    spc = "l237" =>
        switch_chn = (IF STS_RMS > SC_STS_RMS THEN BRS_on_state ELSE BRS_off_state)

====
